---------------------------- MODULE Spec2Model ----------------------------
(***************************************************************************)
(* A model of scripts/markdown_lint.py: the line classifiers (the regular  *)
(* expressions, as matchers over sequences of characters), the target      *)
(* resolver, the per-file scan lint_file (one step per iteration of its    *)
(* loops) and main (enumeration, scans, sorted report, exit status).       *)
(*                                                                         *)
(* A string is a sequence of one-character strings: <<"#", " ", "a">>.     *)
(***************************************************************************)
EXTENDS Integers, Sequences, FiniteSets, TLC

(***************************************************************************)
(* Characters and strings                                                  *)
(***************************************************************************)

\* The characters Python's \s and str.strip() treat as whitespace, among
\* those a line of the model can hold.
Whitespace == {" ", "\t"}

\* The backtick, which a TLA+ string cannot hold, as a character of its own.
Backtick == "<backtick>"

Digits == {"0", "1", "2", "3", "4", "5", "6", "7", "8", "9"}

Min(S) == CHOOSE x \in S : \A y \in S : x <= y

\* The code point of a character (the order Python compares strings by).
CodePoint(c) ==
    CASE c = "\t" -> 9   [] c = " " -> 32  [] c = "!" -> 33  [] c = "\"" -> 34
      [] c = "#" -> 35   [] c = "%" -> 37  [] c = "'" -> 39  [] c = "(" -> 40
      [] c = ")" -> 41   [] c = "*" -> 42  [] c = "+" -> 43  [] c = "-" -> 45
      [] c = "." -> 46   [] c = "/" -> 47  [] c = "0" -> 48  [] c = "1" -> 49
      [] c = "2" -> 50   [] c = "3" -> 51  [] c = "4" -> 52  [] c = "5" -> 53
      [] c = "6" -> 54   [] c = "7" -> 55  [] c = "8" -> 56  [] c = "9" -> 57
      [] c = ":" -> 58   [] c = "?" -> 63  [] c = "A" -> 65  [] c = "B" -> 66
      [] c = "C" -> 67   [] c = "D" -> 68  [] c = "E" -> 69  [] c = "F" -> 70
      [] c = "H" -> 72   [] c = "M" -> 77  [] c = "P" -> 80  [] c = "S" -> 83
      [] c = "T" -> 84   [] c = "[" -> 91  [] c = "]" -> 93  [] c = Backtick -> 96
      [] c = "a" -> 97   [] c = "b" -> 98  [] c = "c" -> 99  [] c = "d" -> 100
      [] c = "e" -> 101  [] c = "f" -> 102 [] c = "g" -> 103 [] c = "h" -> 104
      [] c = "i" -> 105  [] c = "l" -> 108 [] c = "m" -> 109 [] c = "n" -> 110
      [] c = "o" -> 111  [] c = "p" -> 112 [] c = "r" -> 114 [] c = "s" -> 115
      [] c = "t" -> 116  [] c = "x" -> 120 [] c = "y" -> 121 [] c = "z" -> 122
      [] c = "|" -> 124  [] c = "~" -> 126
      [] OTHER -> 65533

Alphabet ==
    {"\t", " ", "!", "\"", "#", "%", "'", "(", ")", "*", "+", "-", ".", "/",
     "0", "1", "2", "3", "4", "5", "6", "7", "8", "9", ":", "?",
     "A", "B", "C", "D", "E", "F", "H", "M", "P", "S", "T", "[", "]", Backtick,
     "a", "b", "c", "d", "e", "f", "g", "h", "i", "l", "m", "n", "o", "p",
     "r", "s", "t", "x", "y", "z", "|", "~"}

\* str.lower() on one character.
LowerChar(c) ==
    CASE c = "A" -> "a" [] c = "B" -> "b" [] c = "C" -> "c" [] c = "D" -> "d"
      [] c = "E" -> "e" [] c = "F" -> "f" [] c = "H" -> "h" [] c = "M" -> "m"
      [] c = "P" -> "p" [] c = "S" -> "s" [] c = "T" -> "t"
      [] OTHER -> c

Lower(s) == [k \in 1..Len(s) |-> LowerChar(s[k])]

StartsWith(s, p) == Len(s) >= Len(p) /\ SubSeq(s, 1, Len(p)) = p

EndsWith(s, p) == Len(s) >= Len(p) /\ SubSeq(s, Len(s) - Len(p) + 1, Len(s)) = p

Contains(s, c) == \E k \in 1..Len(s) : s[k] = c

\* The length of the longest prefix of s, from position `from` on, whose
\* characters are all in C.
RunFrom(s, from, C) ==
    LET stop == {k \in from..Len(s) : s[k] \notin C}
    IN  IF stop = {} THEN Len(s) - from + 1 ELSE Min(stop) - from

\* The position of the first c at or after `from`, or 0.
IndexFrom(s, from, c) ==
    LET at == {k \in from..Len(s) : s[k] = c}
    IN  IF at = {} THEN 0 ELSE Min(at)

\* str.strip()
Strip(s) ==
    LET keep == {k \in 1..Len(s) : s[k] \notin Whitespace}
    IN  IF keep = {} THEN <<>>
        ELSE SubSeq(s, Min(keep), CHOOSE k \in keep : \A y \in keep : y <= k)

\* s.split(c, 1)[0]
SplitFirst(s, c) ==
    LET at == IndexFrom(s, 1, c)
    IN  IF at = 0 THEN s ELSE SubSeq(s, 1, at - 1)

\* a < b for two strings, as Python orders them (by code point, a proper
\* prefix first).
RECURSIVE StrLess(_, _)
StrLess(a, b) ==
    IF b = <<>> THEN FALSE
    ELSE IF a = <<>> THEN TRUE
    ELSE IF a[1] # b[1] THEN CodePoint(a[1]) < CodePoint(b[1])
    ELSE StrLess(Tail(a), Tail(b))

(***************************************************************************)
(* Line classifiers                                                        *)
(***************************************************************************)

NoMatch == [matched |-> FALSE]

\* FENCE_RE = ^(?P<indent>\s*)(?P<fence>`{3,}|~{3,})(?P<info>.*)$
\* The fence group is the whole run of the fence character.
FENCE_RE(line) ==
    LET ind == RunFrom(line, 1, Whitespace)
        c   == IF ind < Len(line) THEN line[ind + 1] ELSE ""
        run == IF c \in {Backtick, "~"} THEN RunFrom(line, ind + 1, {c}) ELSE 0
    IN  IF run >= 3
        THEN [matched |-> TRUE, fence |-> [k \in 1..run |-> c]]
        ELSE NoMatch

\* HEADER_RE = ^(#{1,6})(\s+)(.*)$
\* group 1 is the run of '#' (1 to 6 of them, followed by whitespace),
\* group 3 what follows the whitespace.
HEADER_RE(line) ==
    LET hashes == RunFrom(line, 1, {"#"})
        ws     == RunFrom(line, hashes + 1, Whitespace)
    IN  IF hashes >= 1 /\ hashes <= 6 /\ ws >= 1
        THEN [matched |-> TRUE,
              g1 |-> SubSeq(line, 1, hashes),
              g3 |-> SubSeq(line, hashes + ws + 1, Len(line))]
        ELSE NoMatch

\* re.match(r"^#{1,6}\s", line)
HashSpaceMatch(line) ==
    LET hashes == RunFrom(line, 1, {"#"})
    IN  /\ hashes >= 1
        /\ hashes <= 6
        /\ hashes < Len(line)
        /\ line[hashes + 1] \in Whitespace

\* LIST_ITEM_RE = ^(?P<indent>[ ]*)(?P<marker>(?:[-+*]|\d+\.))\s+.+$
LIST_ITEM_RE(line) ==
    LET ind    == RunFrom(line, 1, {" "})
        c      == IF ind < Len(line) THEN line[ind + 1] ELSE ""
        digits == RunFrom(line, ind + 1, Digits)
        mlen   == IF c \in {"-", "+", "*"} THEN 1
                  ELSE IF /\ digits >= 1
                          /\ ind + digits < Len(line)
                          /\ line[ind + digits + 1] = "."
                       THEN digits + 1
                       ELSE 0
        after  == ind + mlen
    IN  IF /\ mlen >= 1
           /\ Len(line) >= after + 2
           /\ line[after + 1] \in Whitespace
        THEN [matched |-> TRUE,
              indent |-> SubSeq(line, 1, ind),
              marker |-> SubSeq(line, ind + 1, after)]
        ELSE NoMatch

\* The position after one table cell  :?[-]{3,}:?  read from position p, or 0.
CellEnd(line, p) ==
    LET a      == IF p <= Len(line) /\ line[p] = ":" THEN p + 1 ELSE p
        dashes == RunFrom(line, a, {"-"})
        b      == a + dashes
    IN  IF dashes < 3 THEN 0
        ELSE IF b <= Len(line) /\ line[b] = ":" THEN b + 1 ELSE b

\* (\s*\|\s*:?[-]{3,}:?)+\s*\|?\s*$  read from position p, n groups read so far.
RECURSIVE SepGroups(_, _, _)
SepGroups(line, p, n) ==
    \E q \in {p + RunFrom(line, p, Whitespace)} :
        IF q <= Len(line) /\ line[q] = "|"
        THEN \E r \in {q + 1 + RunFrom(line, q + 1, Whitespace)} :
             \E e \in {CellEnd(line, r)} :
                IF e # 0 THEN SepGroups(line, e, n + 1)
                ELSE n >= 1 /\ r > Len(line)
        ELSE n >= 1 /\ q > Len(line)

\* TABLE_SEP_RE = ^\s*\|?\s*:?[-]{3,}:?(\s*\|\s*:?[-]{3,}:?)+\s*\|?\s*$
TABLE_SEP_RE(line) ==
    \E p1 \in {1 + RunFrom(line, 1, Whitespace)} :
    \E p2 \in {IF p1 <= Len(line) /\ line[p1] = "|" THEN p1 + 1 ELSE p1} :
    \E p3 \in {p2 + RunFrom(line, p2, Whitespace)} :
    \E e \in {CellEnd(line, p3)} :
        e # 0 /\ SepGroups(line, e, 0)

\* The end of  \[[^\]]*\]\(([^)]+)\)  matched with its '[' at position p, as
\* [from, to] of the captured target, or NoMatch.
BracketMatch(line, p) ==
    LET close == IndexFrom(line, p + 1, "]")
        rp    == IF close = 0 THEN 0 ELSE IndexFrom(line, close + 2, ")")
    IN  IF /\ p <= Len(line)
           /\ line[p] = "["
           /\ close # 0
           /\ close < Len(line)
           /\ line[close + 1] = "("
           /\ rp > close + 2
        THEN [matched |-> TRUE, from |-> close + 2, to |-> rp - 1]
        ELSE NoMatch

\* LINK_RE = (?<!!)\[[^\]]*\]\(([^)]+)\) : group 1 of every match that
\* LINK_RE.finditer(line) yields, scanning from position p.
RECURSIVE LinkScan(_, _)
LinkScan(line, p) ==
    IF p > Len(line) THEN <<>>
    ELSE LET m == IF p = 1 \/ line[p - 1] # "!"
                  THEN BracketMatch(line, p) ELSE NoMatch
         IN  IF m.matched
             THEN <<SubSeq(line, m.from, m.to)>> \o LinkScan(line, m.to + 2)
             ELSE LinkScan(line, p + 1)

LINK_RE(line) == LinkScan(line, 1)

\* IMAGE_RE = !\[[^\]]*\]\(([^)]+)\) : group 1 of every match of finditer.
RECURSIVE ImageScan(_, _)
ImageScan(line, p) ==
    IF p > Len(line) THEN <<>>
    ELSE LET m == IF line[p] = "!" THEN BracketMatch(line, p + 1) ELSE NoMatch
         IN  IF m.matched
             THEN <<SubSeq(line, m.from, m.to)>> \o ImageScan(line, m.to + 2)
             ELSE ImageScan(line, p + 1)

IMAGE_RE(line) == ImageScan(line, 1)

(***************************************************************************)
(* count_table_cols                                                        *)
(***************************************************************************)

count_table_cols(line) ==
    LET s0 == Strip(line)
        s1 == IF StartsWith(s0, <<"|">>) THEN Tail(s0) ELSE s0
        s2 == IF EndsWith(s1, <<"|">>) THEN SubSeq(s1, 1, Len(s1) - 1) ELSE s1
    IN  Cardinality({k \in 1..Len(s2) : s2[k] = "|"}) + 1

(***************************************************************************)
(* Target resolver                                                         *)
(***************************************************************************)

None == [none |-> TRUE]

Some(v) == [none |-> FALSE, value |-> v]

normalize_md_target(target) ==
    LET t == Strip(target)
    IN  IF \/ StartsWith(t, <<"\"">>) /\ EndsWith(t, <<"\"">>)
           \/ StartsWith(t, <<"'">>) /\ EndsWith(t, <<"'">>)
        THEN Strip(SubSeq(t, 2, Len(t) - 1))
        ELSE t

is_web_url(target) ==
    LET t == Lower(target)
    IN  \/ StartsWith(t, <<"h", "t", "t", "p", ":", "/", "/">>)
        \/ StartsWith(t, <<"h", "t", "t", "p", "s", ":", "/", "/">>)

HexDigits == Digits \cup {"a", "b", "c", "d", "e", "f", "A", "B", "C", "D", "E", "F"}

HexValue(c) ==
    IF c \in Digits THEN CodePoint(c) - 48 ELSE CodePoint(LowerChar(c)) - 87

\* The character of a code point; one character stands for every code point
\* outside the alphabet of the model.
OtherChar == "<other>"

Chr(n) ==
    IF \E c \in Alphabet : CodePoint(c) = n
    THEN CHOOSE c \in Alphabet : CodePoint(c) = n
    ELSE OtherChar

\* urllib.parse.unquote: every %XX with two hexadecimal digits is decoded,
\* any other '%' is kept.
RECURSIVE unquote(_)
unquote(s) ==
    IF s = <<>> THEN <<>>
    ELSE IF s[1] = "%" /\ Len(s) >= 3 /\ s[2] \in HexDigits /\ s[3] \in HexDigits
    THEN <<Chr(16 * HexValue(s[2]) + HexValue(s[3]))>> \o unquote(SubSeq(s, 4, Len(s)))
    ELSE <<s[1]>> \o unquote(Tail(s))

\* s.split("/")
RECURSIVE SplitSlash(_)
SplitSlash(s) ==
    LET at == IndexFrom(s, 1, "/")
    IN  IF at = 0 THEN <<s>>
        ELSE <<SubSeq(s, 1, at - 1)>> \o SplitSlash(SubSeq(s, at + 1, Len(s)))

\* "/".join(comps)
RECURSIVE JoinSlash(_)
JoinSlash(comps) ==
    IF comps = <<>> THEN <<>>
    ELSE IF Len(comps) = 1 THEN comps[1]
    ELSE comps[1] \o <<"/">> \o JoinSlash(Tail(comps))

isabs(p) == StartsWith(p, <<"/">>)

\* os.path.normpath's loop over the components, new_comps so far in `acc`.
RECURSIVE NormComps(_, _, _)
NormComps(comps, acc, initial_slashes) ==
    IF comps = <<>> THEN acc
    ELSE LET comp == comps[1]
             dotdot == <<".", ".">>
         IN  IF comp = <<>> \/ comp = <<".">>
             THEN NormComps(Tail(comps), acc, initial_slashes)
             ELSE IF \/ comp # dotdot
                     \/ (initial_slashes = 0 /\ acc = <<>>)
                     \/ (acc # <<>> /\ acc[Len(acc)] = dotdot)
             THEN NormComps(Tail(comps), Append(acc, comp), initial_slashes)
             ELSE IF acc # <<>>
             THEN NormComps(Tail(comps), SubSeq(acc, 1, Len(acc) - 1), initial_slashes)
             ELSE NormComps(Tail(comps), acc, initial_slashes)

\* os.path.normpath (posixpath)
normpath(path) ==
    IF path = <<>> THEN <<".">>
    ELSE LET initial_slashes ==
                 IF ~StartsWith(path, <<"/">>) THEN 0
                 ELSE IF StartsWith(path, <<"/", "/">>) /\ ~StartsWith(path, <<"/", "/", "/">>)
                 THEN 2 ELSE 1
             joined == JoinSlash(NormComps(SplitSlash(path), <<>>, initial_slashes))
             out == [k \in 1..initial_slashes |-> "/"] \o joined
         IN  IF out = <<>> THEN <<".">> ELSE out

\* os.path.dirname (posixpath)
dirname(p) ==
    LET slashes == {k \in 1..Len(p) : p[k] = "/"}
        i    == IF slashes = {} THEN 0 ELSE CHOOSE k \in slashes : \A y \in slashes : y <= k
        head == SubSeq(p, 1, i)
        keep == {k \in 1..Len(head) : head[k] # "/"}
    IN  IF keep = {} THEN head
        ELSE SubSeq(head, 1, CHOOSE k \in keep : \A y \in keep : y <= k)

\* os.path.join(a, b) (posixpath)
join(a, b) ==
    IF StartsWith(b, <<"/">>) THEN b
    ELSE IF a = <<>> \/ EndsWith(a, <<"/">>) THEN a \o b
    ELSE a \o <<"/">> \o b

resolve_local_path(md_file, target) ==
    LET t0 == normalize_md_target(target)
        t1 == unquote(t0)
        t2 == SplitFirst(SplitFirst(t1, "#"), "?")
    IN  IF t0 = <<>> \/ is_web_url(t0) \/ StartsWith(t0, <<"m", "a", "i", "l", "t", "o", ":">>)
        THEN None
        ELSE IF t2 = <<>> THEN None
        ELSE IF isabs(t2) THEN Some(normpath(t2))
        ELSE Some(normpath(join(dirname(md_file), t2)))

(***************************************************************************)
(* Diagnostics                                                             *)
(***************************************************************************)

\* A message: its literal text with {} for each formatted value, the
\* formatted numbers a and b (0 when the text has none) and the formatted
\* target (empty when the text has none).
Msg(text, a, b, target) == [text |-> text, a |-> a, b |-> b, target |-> target]

TabMsg == Msg("Tab character found; use spaces", 0, 0, <<>>)

NoTextMsg == Msg("Header has no text", 0, 0, <<>>)

MissingSpaceMsg == Msg("Missing space after '#' in header", 0, 0, <<>>)

MultipleH1Msg == Msg("Multiple H1 headings found", 0, 0, <<>>)

JumpMsg(prev, level) == Msg("Header level jumps from H{} to H{}", prev, level, <<>>)

ListIndentMsg == Msg("List indentation is not a multiple of 2 spaces", 0, 0, <<>>)

ListBlankMsg == Msg("Indented list item preceded by blank line; may break nesting", 0, 0, <<>>)

BrokenLinkMsg(target) == Msg("Broken link target: {}", 0, 0, target)

MissingImageMsg(target) == Msg("Missing image file: {}", 0, 0, target)

TableHeaderMsg == Msg("Table header appears to have fewer than 2 columns", 0, 0, <<>>)

TableRowMsg(row_cols, cols) == Msg("Table row has {} columns; expected {}", row_cols, cols, <<>>)

UnclosedMsg == Msg("Fenced code block is not closed", 0, 0, <<>>)

\* One element of lint_file's errors: (line_no, rule, msg).
Err(line_no, rule, msg) == <<line_no, rule, msg>>

(***************************************************************************)
(* The file tree                                                           *)
(***************************************************************************)

\* os.getcwd(), the root of the walk.
Root == <<"/", "r">>

\* A file of the tree: whether its bytes decode as UTF-8, and, if they do,
\* f.read().splitlines().
File(decodes, ls) == [decodes |-> decodes, lines |-> ls]

\* The proper ancestors of a path.
RECURSIVE Ancestors(_)
Ancestors(p) ==
    LET d == dirname(p)
    IN  IF d = p \/ d = <<>> THEN {d} ELSE {d} \cup Ancestors(d)

\* os.path.exists(p) in the tree t: a file of it, or a directory holding one.
exists(t, p) ==
    \/ p \in DOMAIN t
    \/ \E f \in DOMAIN t : p \in Ancestors(f) /\ p # <<>>

basename(p) ==
    LET parts == SplitSlash(p) IN parts[Len(parts)]

\* name.lower().endswith(".md")
IsMarkdownName(name) == EndsWith(Lower(name), <<".", "m", "d">>)

Perms(S) ==
    {f \in [1..Cardinality(S) -> S] : \A a, b \in 1..Cardinality(S) : a # b => f[a] # f[b]}

\* The directories directly under dir that hold a file of the tree, but for
\* the pruned one: dirnames[:] = [d for d in dirnames if d not in {".git"}]
SubDirs(t, dir) ==
    {d \in UNION {Ancestors(f) : f \in DOMAIN t} :
        /\ d # dir
        /\ dirname(d) = dir
        /\ basename(d) # <<".", "g", "i", "t">>}

\* Every sequence iter_markdown_files can yield below dir: os.walk lists a
\* directory's files, then each of its subdirectories, both in the order the
\* file system gives them.
RECURSIVE Walk(_, _), WalkAll(_, _)
Walk(t, dir) ==
    LET here == {f \in DOMAIN t : dirname(f) = dir /\ IsMarkdownName(basename(f))}
    IN  {fo \o so : fo \in Perms(here),
                    so \in UNION {WalkAll(t, ds) : ds \in Perms(SubDirs(t, dir))}}
WalkAll(t, ds) ==
    IF ds = <<>> THEN {<<>>}
    ELSE {a \o b : a \in Walk(t, ds[1]), b \in WalkAll(t, Tail(ds))}

iter_markdown_files(t, root) == Walk(t, root)

\* os.path.relpath(f, root) for a file below root.
relpath(f, root) == SubSeq(f, Len(root) + 2, Len(f))

(***************************************************************************)
(* The order of sorted(all_errors)                                         *)
(***************************************************************************)

\* str(n)
RECURSIVE Dec(_)
Dec(n) ==
    IF n < 10 THEN <<Chr(48 + n)>> ELSE Dec(n \div 10) \o <<Chr(48 + (n % 10))>>

\* The rules, in the order of their names as strings.
RuleRank(rule) ==
    CASE rule = "header" -> 1 [] rule = "image" -> 2 [] rule = "indent" -> 3
      [] rule = "link" -> 4 [] rule = "syntax" -> 5 [] rule = "table" -> 6

\* The literal texts, in the order of their first differing characters.
TextRank(text) ==
    CASE text = "Broken link target: {}" -> 1
      [] text = "Fenced code block is not closed" -> 2
      [] text = "Header has no text" -> 3
      [] text = "Header level jumps from H{} to H{}" -> 4
      [] text = "Indented list item preceded by blank line; may break nesting" -> 5
      [] text = "List indentation is not a multiple of 2 spaces" -> 6
      [] text = "Missing image file: {}" -> 7
      [] text = "Missing space after '#' in header" -> 8
      [] text = "Multiple H1 headings found" -> 9
      [] text = "Tab character found; use spaces" -> 10
      [] text = "Table header appears to have fewer than 2 columns" -> 11
      [] text = "Table row has {} columns; expected {}" -> 12

\* What the formatted values put into a message, as far as it orders two
\* messages of the same text: the literal text between and after them is the
\* same and starts with a space.
Formatted(msg) ==
    IF msg.text \in {"Header level jumps from H{} to H{}",
                     "Table row has {} columns; expected {}"}
    THEN Dec(msg.a) \o <<" ">> \o Dec(msg.b)
    ELSE msg.target

\* a < b for two messages, as Python orders the formatted strings.
MsgLess(a, b) ==
    \/ TextRank(a.text) < TextRank(b.text)
    \/ a.text = b.text /\ StrLess(Formatted(a), Formatted(b))

\* An order of the elements of all_errors that does not look at the file.
TupleLess_IgnoresFile(a, b) ==
    \/ a[2] < b[2]
    \/ a[2] = b[2] /\ RuleRank(a[3]) < RuleRank(b[3])
    \/ a[2] = b[2] /\ a[3] = b[3] /\ MsgLess(a[4], b[4])

\* a < b for two elements (f, line_no, rule, msg) of all_errors, as Python
\* orders tuples.
TupleLess(a, b) ==
    \/ StrLess(a[1], b[1])
    \/ a[1] = b[1] /\ a[2] < b[2]
    \/ a[1] = b[1] /\ a[2] = b[2] /\ RuleRank(a[3]) < RuleRank(b[3])
    \/ a[1] = b[1] /\ a[2] = b[2] /\ a[3] = b[3] /\ MsgLess(a[4], b[4])

\* e put into the sorted sequence s, after the elements not greater than it.
RECURSIVE Insert(_, _)
Insert(s, e) ==
    IF s = <<>> THEN <<e>>
    ELSE IF TupleLess(e, s[1]) THEN <<e>> \o s
    ELSE <<s[1]>> \o Insert(Tail(s), e)

\* A report that forgets to sort.
sorted_Unsorted(s) == s

\* sorted(all_errors)
RECURSIVE sorted(_)
sorted(s) ==
    IF s = <<>> THEN <<>> ELSE Insert(sorted(SubSeq(s, 1, Len(s) - 1)), s[Len(s)])

(***************************************************************************)
(* State                                                                   *)
(***************************************************************************)

VARIABLES
    tree,               \* the files below the root: path -> File
    md_files,           \* main: list(iter_markdown_files(root))
    pc,                 \* where the program is: "main", "files", "scan", "rows", "exit"
    fidx,               \* main: the place in md_files of the file being scanned
    path,               \* lint_file's argument
    lines,              \* lint_file: the lines read
    i,                  \* lint_file: the index of the main loop (0-based)
    j,                  \* lint_file: the index of the table lookahead (0-based)
    cols,               \* lint_file: the column count of the table header
    in_fenced,
    fence_token,
    fence_line,
    h1_count,
    last_header_level,
    errors,             \* lint_file: the diagnostics so far
    returned,           \* what each call of lint_file returned: <<path, errors>>
    all_errors,         \* main: (f, line_no, rule, msg) of every file so far
    stdout,             \* the lines printed
    exit_status,        \* the status the process ended with, -1 while it runs
    raised,             \* whether the process ended by an uncaught exception
    previous            \* what the run before this one, over the same tree, ended
                        \* with: <<>> in the first run

scan_vars == <<path, lines, i, j, cols, in_fenced, fence_token, fence_line,
               h1_count, last_header_level, errors>>

main_vars == <<md_files, fidx, returned, all_errors, stdout, exit_status, raised,
               previous>>

vars == <<tree, pc, scan_vars, main_vars>>

(***************************************************************************)
(* lint_file's rules for one line                                          *)
(***************************************************************************)

\* if "\t" in line
TabErrors(line, line_no) ==
    IF Contains(line, "\t") THEN <<Err(line_no, "indent", TabMsg)>> ELSE <<>>

\* A closing test that forgets the character of the opening fence.
FenceCloses_AnyCharacter(token, open_token) == Len(token) >= 3

\* A closing test that wants a run of just three characters.
FenceCloses_RunOfThree(token, open_token) ==
    token[1] = open_token[1] /\ Len(token) = 3

\* token[0] == fence_token[0] and len(token) >= 3
FenceCloses(token, open_token) ==
    token[1] = open_token[1] /\ Len(token) >= 3

\* line.startswith("#") and not line.startswith("# ") and
\* line.startswith("#"), and then not re.match(r"^#{1,6}\s", line)
MissingSpace(line) ==
    /\ StartsWith(line, <<"#">>)
    /\ ~StartsWith(line, <<"#", " ">>)
    /\ StartsWith(line, <<"#">>)
    /\ ~HashSpaceMatch(line)

\* A test of the count that is off by one.
H1Repeated_OffByOne(count) == count >= 1

\* h1_count > 1, once h1_count has counted this header
H1Repeated(count) == count > 1

\* A test of the jump that forgets that 0 stands for no header yet.
LevelJumps_FromNothing(last, level) == level > last + 1

\* last_header_level and level > last_header_level + 1
LevelJumps(last, level) == last # 0 /\ level > last + 1

\* The header rules on a line that HEADER_RE matched as m.
HeaderErrors(line, line_no, m, count, last) ==
    LET level == Len(m.g1)
        title == m.g3
    IN  (IF Strip(title) = <<>> THEN <<Err(line_no, "header", NoTextMsg)>> ELSE <<>>)
        \o (IF MissingSpace(line)
            THEN <<Err(line_no, "header", MissingSpaceMsg)>> ELSE <<>>)
        \o (IF level = 1 /\ H1Repeated(count + 1)
            THEN <<Err(line_no, "header", MultipleH1Msg)>> ELSE <<>>)
        \o (IF LevelJumps(last, level)
            THEN <<Err(line_no, "header", JumpMsg(last, level))>> ELSE <<>>)

\* prev.strip() == "" and not prev.startswith(" ")
BlankBefore(prev) == Strip(prev) = <<>> /\ ~StartsWith(prev, <<" ">>)

\* The list rules on line ls[k + 1] that LIST_ITEM_RE matched as m.
ListErrors(ls, k, m) ==
    LET indent == Len(m.indent)
        prev   == IF k > 0 THEN ls[k] ELSE <<>>
    IN  (IF indent % 2 # 0
         THEN <<Err(k + 1, "indent", ListIndentMsg)>> ELSE <<>>)
        \o (IF indent > 0 /\ BlankBefore(prev)
            THEN <<Err(k + 1, "indent", ListBlankMsg)>> ELSE <<>>)

\* local is not None and not os.path.exists(local)
Broken(t, md_file, target) ==
    LET local == resolve_local_path(md_file, target)
    IN  ~local.none /\ ~exists(t, local.value)

\* One diagnostic for each of the targets that is broken, in their order.
RECURSIVE TargetErrors(_, _, _, _, _)
TargetErrors(t, md_file, targets, line_no, rule) ==
    IF targets = <<>> THEN <<>>
    ELSE (IF Broken(t, md_file, targets[1])
          THEN <<Err(line_no, rule,
                     IF rule = "link" THEN BrokenLinkMsg(targets[1])
                     ELSE MissingImageMsg(targets[1]))>>
          ELSE <<>>)
         \o TargetErrors(t, md_file, Tail(targets), line_no, rule)

\* "|" in line and i + 1 < len(lines), and TABLE_SEP_RE.match(next_line)
TableStarts(ls, k) ==
    /\ Contains(ls[k + 1], "|")
    /\ k + 1 < Len(ls)
    /\ TABLE_SEP_RE(ls[k + 2])

\* A test of the next row that forgets the '|'.
RowFollows_UntilBlank(ls, row) ==
    /\ row < Len(ls)
    /\ Strip(ls[row + 1]) # <<>>

\* j < len(lines) and "|" in lines[j] and lines[j].strip() != ""
RowFollows(ls, row) ==
    /\ row < Len(ls)
    /\ Contains(ls[row + 1], "|")
    /\ Strip(ls[row + 1]) # <<>>

\* row_cols != cols
RowDiffers(row_cols, header_cols) == row_cols # header_cols

(***************************************************************************)
(* main and lint_file, step by step                                        *)
(***************************************************************************)

\* The state main starts in, over the tree t.
Start(t) ==
    /\ tree = t
    /\ md_files = <<>>
    /\ pc = "main"
    /\ fidx = 1
    /\ path = <<>>
    /\ lines = <<>>
    /\ i = 0
    /\ j = 0
    /\ cols = 0
    /\ in_fenced = FALSE
    /\ fence_token = <<>>
    /\ fence_line = 0
    /\ h1_count = 0
    /\ last_header_level = 0
    /\ errors = <<>>
    /\ returned = <<>>
    /\ all_errors = <<>>
    /\ stdout = <<>>
    /\ exit_status = -1
    /\ raised = FALSE
    /\ previous = <<>>

\* A printed line: a diagnostic "{rel}:{line_no}: [{rule}] {msg}", or one of
\* the three closing messages with the number it formats.
DiagLine(rel, line_no, rule, msg) ==
    [kind |-> "diagnostic", rel |-> rel, line_no |-> line_no, rule |-> rule,
     msg |-> msg, n |-> 0]

TextLine(text, n) ==
    [kind |-> text, rel |-> <<>>, line_no |-> 0, rule |-> "",
     msg |-> Msg("", 0, 0, <<>>), n |-> n]

\* md_files = list(iter_markdown_files(root))
Enumerate ==
    /\ pc = "main"
    /\ md_files' \in iter_markdown_files(tree, Root)
    /\ pc' = "files"
    /\ UNCHANGED <<tree, scan_vars, fidx, returned, all_errors, stdout,
                   exit_status, raised, previous>>

\* if not md_files: print("No .md files found"); return 0
NoFiles ==
    /\ pc = "files"
    /\ md_files = <<>>
    /\ stdout' = Append(stdout, TextLine("No .md files found", 0))
    /\ exit_status' = 0
    /\ pc' = "exit"
    /\ UNCHANGED <<tree, scan_vars, md_files, fidx, returned, all_errors, raised,
                   previous>>

\* A start of lint_file that keeps the header state of the scan before.
OpenFile_KeepsHeaderState ==
    /\ pc = "files"
    /\ fidx <= Len(md_files)
    /\ tree[md_files[fidx]].decodes
    /\ path' = md_files[fidx]
    /\ lines' = tree[md_files[fidx]].lines
    /\ errors' = <<>>
    /\ in_fenced' = FALSE
    /\ fence_token' = <<>>
    /\ fence_line' = 0
    /\ i' = 0
    /\ pc' = "scan"
    /\ UNCHANGED <<tree, j, cols, h1_count, last_header_level, main_vars>>

\* lint_file(f) up to its loop: the file is read and the scan state is set.
OpenFile ==
    /\ pc = "files"
    /\ fidx <= Len(md_files)
    /\ tree[md_files[fidx]].decodes
    /\ path' = md_files[fidx]
    /\ lines' = tree[md_files[fidx]].lines
    /\ errors' = <<>>
    /\ in_fenced' = FALSE
    /\ fence_token' = <<>>
    /\ fence_line' = 0
    /\ h1_count' = 0
    /\ last_header_level' = 0
    /\ i' = 0
    /\ pc' = "scan"
    /\ UNCHANGED <<tree, j, cols, main_vars>>

\* lint_file(f) on a file whose bytes are not UTF-8: the first read raises
\* UnicodeDecodeError, and so does the second one, as utf-8-sig; nothing
\* catches it and the process ends with status 1, the report unprinted.
ReadError ==
    /\ pc = "files"
    /\ fidx <= Len(md_files)
    /\ ~tree[md_files[fidx]].decodes
    /\ raised' = TRUE
    /\ exit_status' = 1
    /\ pc' = "exit"
    /\ UNCHANGED <<tree, scan_vars, md_files, fidx, returned, all_errors, stdout,
                   previous>>

\* A fence line met outside a fence.
FenceOpen ==
    /\ pc = "scan"
    /\ i < Len(lines)
    /\ LET line == lines[i + 1]
           fence_m == FENCE_RE(line)
       IN  /\ fence_m.matched
           /\ ~in_fenced
           /\ errors' = errors \o TabErrors(line, i + 1)
           /\ in_fenced' = TRUE
           /\ fence_token' = [k \in 1..3 |-> fence_m.fence[1]]
           /\ fence_line' = i + 1
    /\ i' = i + 1
    /\ UNCHANGED <<tree, pc, path, lines, j, cols, h1_count, last_header_level,
                   main_vars>>

\* A closing of the fence that keeps what was recorded at its opening.
FenceClose_KeepsRecord ==
    /\ pc = "scan"
    /\ i < Len(lines)
    /\ LET line == lines[i + 1]
           fence_m == FENCE_RE(line)
       IN  /\ fence_m.matched
           /\ in_fenced
           /\ FenceCloses(fence_m.fence, fence_token)
           /\ errors' = errors \o TabErrors(line, i + 1)
           /\ in_fenced' = FALSE
    /\ i' = i + 1
    /\ UNCHANGED <<tree, pc, path, lines, j, cols, fence_token, fence_line, h1_count,
                   last_header_level, main_vars>>

\* A fence line met inside a fence, of the character that opened it.
FenceClose ==
    /\ pc = "scan"
    /\ i < Len(lines)
    /\ LET line == lines[i + 1]
           fence_m == FENCE_RE(line)
       IN  /\ fence_m.matched
           /\ in_fenced
           /\ FenceCloses(fence_m.fence, fence_token)
           /\ errors' = errors \o TabErrors(line, i + 1)
           /\ in_fenced' = FALSE
           /\ fence_token' = <<>>
           /\ fence_line' = 0
    /\ i' = i + 1
    /\ UNCHANGED <<tree, pc, path, lines, j, cols, h1_count, last_header_level,
                   main_vars>>

\* A fence line met inside a fence, of the other character.
FenceOther ==
    /\ pc = "scan"
    /\ i < Len(lines)
    /\ LET line == lines[i + 1]
           fence_m == FENCE_RE(line)
       IN  /\ fence_m.matched
           /\ in_fenced
           /\ ~FenceCloses(fence_m.fence, fence_token)
           /\ errors' = errors \o TabErrors(line, i + 1)
    /\ i' = i + 1
    /\ UNCHANGED <<tree, pc, path, lines, j, cols, in_fenced, fence_token,
                   fence_line, h1_count, last_header_level, main_vars>>

\* A line inside a fence whose header is counted and remembered.
FencedLine_SeesHeaders ==
    /\ pc = "scan"
    /\ i < Len(lines)
    /\ ~FENCE_RE(lines[i + 1]).matched
    /\ in_fenced
    /\ errors' = errors \o TabErrors(lines[i + 1], i + 1)
    /\ LET header_m == HEADER_RE(lines[i + 1])
       IN  /\ h1_count' = IF header_m.matched /\ Len(header_m.g1) = 1
                          THEN h1_count + 1 ELSE h1_count
           /\ last_header_level' = IF header_m.matched THEN Len(header_m.g1)
                                   ELSE last_header_level
    /\ i' = i + 1
    /\ UNCHANGED <<tree, pc, path, lines, j, cols, in_fenced, fence_token,
                   fence_line, main_vars>>

\* A line inside a fence on which the tab is not looked for.
FencedLine_SkipsTab ==
    /\ pc = "scan"
    /\ i < Len(lines)
    /\ ~FENCE_RE(lines[i + 1]).matched
    /\ in_fenced
    /\ i' = i + 1
    /\ UNCHANGED <<tree, pc, path, lines, j, cols, in_fenced, fence_token,
                   fence_line, h1_count, last_header_level, errors, main_vars>>

\* A line inside a fence that is no fence line.
FencedLine ==
    /\ pc = "scan"
    /\ i < Len(lines)
    /\ ~FENCE_RE(lines[i + 1]).matched
    /\ in_fenced
    /\ errors' = errors \o TabErrors(lines[i + 1], i + 1)
    /\ i' = i + 1
    /\ UNCHANGED <<tree, pc, path, lines, j, cols, in_fenced, fence_token,
                   fence_line, h1_count, last_header_level, main_vars>>

\* A line outside a fence that is no fence line: the content rules, up to
\* the table rule's check of the header row.
NormalLine ==
    /\ pc = "scan"
    /\ i < Len(lines)
    /\ ~FENCE_RE(lines[i + 1]).matched
    /\ ~in_fenced
    /\ LET line     == lines[i + 1]
           line_no  == i + 1
           header_m == HEADER_RE(line)
           list_m   == LIST_ITEM_RE(line)
           level    == Len(header_m.g1)
           table    == TableStarts(lines, i)
           width    == count_table_cols(line)
       IN  /\ errors' =
                errors
                \o TabErrors(line, line_no)
                \o (IF header_m.matched
                    THEN HeaderErrors(line, line_no, header_m, h1_count, last_header_level)
                    ELSE <<>>)
                \o (IF list_m.matched THEN ListErrors(lines, i, list_m) ELSE <<>>)
                \o TargetErrors(tree, path, LINK_RE(line), line_no, "link")
                \o TargetErrors(tree, path, IMAGE_RE(line), line_no, "image")
                \o (IF table /\ width < 2
                    THEN <<Err(line_no, "table", TableHeaderMsg)>> ELSE <<>>)
           /\ h1_count' = IF header_m.matched /\ level = 1 THEN h1_count + 1 ELSE h1_count
           /\ last_header_level' = IF header_m.matched THEN level ELSE last_header_level
           /\ IF table
              THEN cols' = width /\ j' = i + 2 /\ pc' = "rows" /\ i' = i
              ELSE i' = i + 1 /\ UNCHANGED <<pc, j, cols>>
    /\ UNCHANGED <<tree, path, lines, in_fenced, fence_token, fence_line, main_vars>>

\* An iteration over the rows that takes the main loop along.
TableRow_MovesMainIndex ==
    /\ pc = "rows"
    /\ RowFollows(lines, j)
    /\ LET row_cols == count_table_cols(lines[j + 1])
       IN  errors' = errors \o
                (IF RowDiffers(row_cols, cols)
                 THEN <<Err(j + 1, "table", TableRowMsg(row_cols, cols))>> ELSE <<>>)
    /\ j' = j + 1
    /\ i' = j
    /\ UNCHANGED <<tree, pc, path, lines, cols, in_fenced, fence_token, fence_line,
                   h1_count, last_header_level, main_vars>>

\* One iteration of the table rule's loop over the rows.
TableRow ==
    /\ pc = "rows"
    /\ RowFollows(lines, j)
    /\ LET row_cols == count_table_cols(lines[j + 1])
       IN  errors' = errors \o
                (IF RowDiffers(row_cols, cols)
                 THEN <<Err(j + 1, "table", TableRowMsg(row_cols, cols))>> ELSE <<>>)
    /\ j' = j + 1
    /\ UNCHANGED <<tree, pc, path, lines, i, cols, in_fenced, fence_token, fence_line,
                   h1_count, last_header_level, main_vars>>

\* The end of the table rule's loop, and of this iteration of the main loop.
TableEnd ==
    /\ pc = "rows"
    /\ ~RowFollows(lines, j)
    /\ i' = i + 1
    /\ pc' = "scan"
    /\ UNCHANGED <<tree, path, lines, j, cols, in_fenced, fence_token, fence_line,
                   h1_count, last_header_level, errors, main_vars>>

\* An end of scan that forgets to test in_fenced.
FinalErrors_Unconditional ==
    Append(errors, Err(IF fence_line # 0 THEN fence_line ELSE 1, "syntax", UnclosedMsg))

\* An end of scan that reports the open fence after the last line.
FinalErrors_AfterLastLine ==
    IF in_fenced
    THEN Append(errors, Err(Len(lines) + 1, "syntax", UnclosedMsg))
    ELSE errors

\* if in_fenced: errors.append((fence_line or 1, "syntax", ...))
FinalErrors ==
    IF in_fenced
    THEN Append(errors, Err(IF fence_line # 0 THEN fence_line ELSE 1, "syntax", UnclosedMsg))
    ELSE errors

\* The end of lint_file and main's loop over what it returns:
\* all_errors.append((f, line_no, rule, msg))
Return ==
    /\ pc = "scan"
    /\ i >= Len(lines)
    /\ errors' = FinalErrors
    /\ returned' = Append(returned, <<path, FinalErrors>>)
    /\ all_errors' = all_errors \o
            [k \in 1..Len(FinalErrors) |->
                <<md_files[fidx], FinalErrors[k][1], FinalErrors[k][2], FinalErrors[k][3]>>]
    /\ fidx' = fidx + 1
    /\ pc' = "files"
    /\ UNCHANGED <<tree, path, lines, i, j, cols, in_fenced, fence_token, fence_line,
                   h1_count, last_header_level, md_files, stdout, exit_status, raised,
                   previous>>

\* for ... in sorted(all_errors): print(f"{rel}:{line_no}: [{rule}] {msg}")
Printed(errs) ==
    LET s == sorted(errs)
    IN  [k \in 1..Len(s) |-> DiagLine(relpath(s[k][1], Root), s[k][2], s[k][3], s[k][4])]

\* A report that ends with the status 0.
Report_ReturnsZero ==
    /\ pc = "files"
    /\ md_files # <<>>
    /\ fidx > Len(md_files)
    /\ all_errors # <<>>
    /\ stdout' = stdout \o Printed(all_errors)
                   \o <<TextLine("Markdown lint failed: {} issue(s) found", Len(all_errors))>>
    /\ exit_status' = 0
    /\ pc' = "exit"
    /\ UNCHANGED <<tree, scan_vars, md_files, fidx, returned, all_errors, raised,
                   previous>>

\* if all_errors: the sorted diagnostics, the summary, return 1
Report ==
    /\ pc = "files"
    /\ md_files # <<>>
    /\ fidx > Len(md_files)
    /\ all_errors # <<>>
    /\ stdout' = stdout \o Printed(all_errors)
                   \o <<TextLine("Markdown lint failed: {} issue(s) found", Len(all_errors))>>
    /\ exit_status' = 1
    /\ pc' = "exit"
    /\ UNCHANGED <<tree, scan_vars, md_files, fidx, returned, all_errors, raised,
                   previous>>

\* print(f"Markdown lint passed: {len(md_files)} file(s) checked"); return 0
Passed ==
    /\ pc = "files"
    /\ md_files # <<>>
    /\ fidx > Len(md_files)
    /\ all_errors = <<>>
    /\ stdout' = Append(stdout, TextLine("Markdown lint passed: {} file(s) checked", Len(md_files)))
    /\ exit_status' = 0
    /\ pc' = "exit"
    /\ UNCHANGED <<tree, scan_vars, md_files, fidx, returned, all_errors, raised,
                   previous>>

\* The program is run once more over the same tree: what the first run
\* ended with is kept, and main starts again.
Again ==
    /\ pc = "exit"
    /\ previous = <<>>
    /\ previous' = <<[md_files |-> md_files, returned |-> returned, stdout |-> stdout,
                      exit_status |-> exit_status]>>
    /\ md_files' = <<>>
    /\ pc' = "main"
    /\ fidx' = 1
    /\ path' = <<>>
    /\ lines' = <<>>
    /\ i' = 0
    /\ j' = 0
    /\ cols' = 0
    /\ in_fenced' = FALSE
    /\ fence_token' = <<>>
    /\ fence_line' = 0
    /\ h1_count' = 0
    /\ last_header_level' = 0
    /\ errors' = <<>>
    /\ returned' = <<>>
    /\ all_errors' = <<>>
    /\ stdout' = <<>>
    /\ exit_status' = -1
    /\ raised' = FALSE
    /\ UNCHANGED tree

Next ==
    \/ Enumerate
    \/ NoFiles
    \/ OpenFile
    \/ ReadError
    \/ FenceOpen
    \/ FenceClose
    \/ FenceOther
    \/ FencedLine
    \/ NormalLine
    \/ TableRow
    \/ TableEnd
    \/ Return
    \/ Report
    \/ Passed
    \/ Again

\* The steps of lint_file once the file is read: one turn of the while loop,
\* one turn of the inner loop over the rows of a table, or the return.
ScanNext ==
    \/ FenceOpen
    \/ FenceClose
    \/ FenceOther
    \/ FencedLine
    \/ NormalLine
    \/ TableRow
    \/ TableEnd
    \/ Return

(***************************************************************************)
(* The trees the checks start from                                         *)
(***************************************************************************)

\* The longest file of each family of trees, and the most files of a tree.
MaxLines == 3

MaxHeaderLines == 4

MaxFenceLines == 4

MaxRows == 3

MaxLinkLines == 3

MaxFiles == 2

MaxTabLines == 4

MaxListLines == 3

MaxTargetLen == 3

MaxLevelLines == 4

\* Every sequence of at most n elements of S.
SeqsUpTo(S, n) == UNION {[1..k -> S] : k \in 0..n}

FileA == <<"/", "r", "/", "a", ".", "m", "d">>

\* The tree of one markdown file, a.md, with these lines.
OneFile(ls) == FileA :> File(TRUE, ls)

BackFence == <<Backtick, Backtick, Backtick>>

TildeFence == <<"~", "~", "~">>

\* A few trees that every family holds: no file at all, a file that does not
\* decode, and a file with a table and with fences of both characters.
BaseTrees ==
    { <<>>,
      FileA :> File(FALSE, <<>>),
      OneFile(<< <<"a", "|", "b">>, <<"-", "-", "-", "|", "-", "-", "-">>,
                 <<"c", "|", "d", "|", "e">>, BackFence, <<"x">>, TildeFence,
                 BackFence >>) }

\* Lines of every kind: plain text, a tab, a '#' with no space, a header, a
\* list item, fences (one of them holding a '|'), table rows, a separator
\* row, a link to a missing file.
MixedLines ==
    { <<"a">>,
      <<"a", "\t", "b">>,
      <<"#", "a">>,
      <<"#", " ", "a">>,
      <<"-", " ", "a">>,
      BackFence,
      BackFence \o <<"|">>,
      <<"a", "|", "b">>,
      <<"-", "-", "-", "|", "-", "-", "-">>,
      <<"[", "a", "]", "(", "x", ")">> }

MixedTrees == {OneFile(ls) : ls \in SeqsUpTo(MixedLines, MaxLines)} \cup BaseTrees

Init == \E t \in MixedTrees : Start(t)

Spec == Init /\ [][Next]_vars

\* Fence lines of both characters, of several lengths, indented and with an
\* info string, a run of two backticks, and plain text.
FenceLines ==
    { BackFence,
      TildeFence,
      <<Backtick, Backtick, Backtick, Backtick>>,
      <<" ", "~", "~", "~", "~", "a">>,
      <<Backtick, Backtick>>,
      <<"a">> }

FenceTrees == {OneFile(ls) : ls \in SeqsUpTo(FenceLines, MaxFenceLines)} \cup BaseTrees

InitFences == \E t \in FenceTrees : Start(t)

SpecFences == InitFences /\ [][Next]_vars

\* Headers of the levels 1 to 3, a '#' with no space, a fence and plain text.
HeaderLines ==
    { <<"#", " ", "a">>,
      <<"#", "#", " ", "a">>,
      <<"#", "#", "#", " ", "a">>,
      <<"#", "a">>,
      BackFence,
      <<"a">> }

HeaderTrees == {OneFile(ls) : ls \in SeqsUpTo(HeaderLines, MaxHeaderLines)} \cup BaseTrees

InitHeaders == \E t \in HeaderTrees : Start(t)

SpecHeaders == InitHeaders /\ [][Next]_vars

Separator == <<"-", "-", "-", "|", "-", "-", "-">>

\* What comes before a table: nothing, or a fence that is left open.
TablePrefixes == {<<>>, <<BackFence>>}

\* Header rows of two and of three columns, and a fence line holding a '|'.
TableHeads ==
    { <<"a", "|", "b">>,
      <<"|", "a", "|", "b", "|", "c", "|">>,
      BackFence \o <<"|">> }

\* What follows the separator row: rows of two, three and one columns, a
\* blank line, a line with no '|', a fence line holding a '|', and a second
\* separator row.
TableRows ==
    { <<"c", "|", "d">>,
      BackFence \o <<"|">>,
      <<"|", "c", "|", "d", "|", "e", "|">>,
      <<"|">>,
      <<>>,
      <<"x">>,
      Separator }

TableTrees ==
    {OneFile(pre \o <<head, Separator>> \o rows) :
        pre \in TablePrefixes, head \in TableHeads, rows \in SeqsUpTo(TableRows, MaxRows)}
    \cup BaseTrees

InitTables == \E t \in TableTrees : Start(t)

SpecTables == InitTables /\ [][Next]_vars

\* The same runs, of a process whose scan of a file takes its next step
\* whenever it has one: lint_file is straight-line code that waits for nothing.
SpecTablesFair == InitTables /\ [][Next]_vars /\ WF_vars(ScanNext)

\* Text with and without a tab, fence lines without a tab, with a tab after
\* the fence and with a tab before it, and a header with a tab.
TabLines ==
    { <<"a", "\t", "b">>,
      <<"a">>,
      BackFence,
      BackFence \o <<"\t">>,
      <<"\t">> \o TildeFence,
      <<"#", "\t">> }

TabTrees == {OneFile(ls) : ls \in SeqsUpTo(TabLines, MaxTabLines)} \cup BaseTrees

InitTabs == \E t \in TabTrees : Start(t)

SpecTabs == InitTabs /\ [][Next]_vars

\* List items indented by two spaces, by one and by none, an empty line, a
\* line of one space, a line of one tab, text, and a fence.
ListLines ==
    { <<" ", " ", "-", " ", "a">>,
      <<" ", "-", " ", "a">>,
      <<"-", " ", "a">>,
      <<>>,
      <<" ">>,
      <<"\t">>,
      <<"a">>,
      BackFence }

ListTrees == {OneFile(ls) : ls \in SeqsUpTo(ListLines, MaxListLines)} \cup BaseTrees

InitLists == \E t \in ListTrees : Start(t)

SpecLists == InitLists /\ [][Next]_vars

\* The characters of the short targets: a space, the two quotes, the two
\* characters a target is cut at, and a letter.
TargetChars == {" ", "\"", "'", "#", "?", "x"}

\* Targets with a scheme in either case, with a scheme that is percent-encoded,
\* with an encoded '#', with a query before a fragment, absolute and upward.
LongTargets ==
    { <<"H", "T", "T", "P", ":", "/", "/", "x">>,
      <<"h", "t", "t", "p", "s", ":", "/", "/", "x">>,
      <<"\"", " ", "h", "t", "t", "p", ":", "/", "/", "x", "\"">>,
      <<"m", "a", "i", "l", "t", "o", ":", "x">>,
      <<"M", "a", "i", "l", "t", "o", ":", "x">>,
      <<"%", "6", "8", "t", "t", "p", ":", "/", "/", "x">>,
      <<"%", "2", "3", "x">>,
      <<"x", "%", "2", "3", "y">>,
      <<"x", "?", "y", "#", "z">>,
      <<"/", "x">>,
      <<".", ".", "/", "x">> }

Targets == (SeqsUpTo(TargetChars, MaxTargetLen) \ {<<>>}) \cup LongTargets

\* A file of one line, a link to each target.
TargetTrees ==
    {OneFile(<< <<"[", "a", "]", "(">> \o t \o <<")">> >>) : t \in Targets} \cup BaseTrees

InitTargets == \E t \in TargetTrees : Start(t)

SpecTargets == InitTargets /\ [][Next]_vars

\* Headers of the levels 1 and 6, seven '#' before a space, a fence and
\* plain text.
LevelLines ==
    { <<"#", " ", "a">>,
      <<"#", "#", "#", "#", "#", "#", " ", "a">>,
      <<"#", "#", "#", "#", "#", "#", "#", " ", "a">>,
      BackFence,
      <<"a">> }

LevelTrees == {OneFile(ls) : ls \in SeqsUpTo(LevelLines, MaxLevelLines)} \cup BaseTrees

InitLevels == \E t \in LevelTrees : Start(t)

SpecLevels == InitLevels /\ [][Next]_vars

\* A file that is no markdown file, for links to point at.
FileP == <<"/", "r", "/", "p">>

\* Links and images to a missing file x and to the file p, two links on one
\* line, an image inside a link, a target that needs normalizing, a web
\* address in capitals, and a fence.
LinkLines ==
    { <<"[", "a", "]", "(", "x", ")">>,
      <<"[", "a", "]", "(", "p", ")">>,
      <<"!", "[", "a", "]", "(", "x", ")">>,
      <<"!", "[", "a", "]", "(", "p", ")">>,
      <<"[", "a", "]", "(", "x", ")", "[", "b", "]", "(", "x", ")">>,
      <<"[", "!", "[", "a", "]", "(", "x", ")", "]", "(", "p", ")">>,
      <<"[", "a", "]", "(", ".", "/", "p", "#", "x", ")">>,
      <<"[", "a", "]", "(", "H", "T", "T", "P", ":", "/", "/", "x", ")">>,
      BackFence }

LinkTrees ==
    {OneFile(ls) @@ (FileP :> File(TRUE, <<>>)) : ls \in SeqsUpTo(LinkLines, MaxLinkLines)}
    \cup BaseTrees

InitLinks == \E t \in LinkTrees : Start(t)

SpecLinks == InitLinks /\ [][Next]_vars

\* The markdown files a tree of the runs of main may hold: one whose name
\* ends in capitals, one in the root, one in a directory.
MainPaths ==
    { <<"/", "r", "/", "B", ".", "M", "D">>,
      FileA,
      <<"/", "r", "/", "d", "/", "c", ".", "m", "d">> }

\* What such a file may hold: bytes that do not decode; nothing to report;
\* two headers with a tab and no text; two links on a line and a fence left
\* open; a table whose row is reported before the tab of its separator row;
\* a header of level 3 before one of level 1.
MainFiles ==
    { File(FALSE, <<>>),
      File(TRUE, << <<"a">> >>),
      File(TRUE, << <<"#", "#", "#", " ", "a">>, <<"#", " ", "a">> >>),
      File(TRUE, << <<"#", "\t">>, <<"#", "\t">> >>),
      File(TRUE, << <<"[", "a", "]", "(", "x", ")", "[", "a", "]", "(", "b", ")">>, BackFence >>),
      File(TRUE, << <<"a", "|", "b">>, Separator \o <<"\t">>, <<"c", "|", "d", "|", "e">> >>) }

\* Files main must not scan: one below .git, one that is no markdown file.
OtherFiles ==
    (<<"/", "r", "/", ".", "g", "i", "t", "/", "g", ".", "m", "d">> :> File(TRUE, << <<"#", "\t">> >>))
    @@ (FileP :> File(FALSE, <<>>))

MainTrees ==
    {t @@ OtherFiles :
        t \in UNION {[S -> MainFiles] :
                        S \in {T \in SUBSET MainPaths : Cardinality(T) \in 1..MaxFiles}}}
    \cup {OtherFiles}
    \cup BaseTrees

InitMain == \E t \in MainTrees : Start(t)

SpecMain == InitMain /\ [][Next]_vars

(***************************************************************************)
(* What the claims speak of, said of a file's lines alone                  *)
(***************************************************************************)

IsFence(line) == FENCE_RE(line).matched

FenceChar(line) == FENCE_RE(line).fence[1]

\* The first fence line at or after line n, or 0.
FirstFence(ls, n) ==
    LET at == {k \in n..Len(ls) : IsFence(ls[k])}
    IN  IF at = {} THEN 0 ELSE Min(at)

\* The first fence line after line o of the character of the fence at o, or 0.
Closer(ls, o) ==
    LET at == {k \in (o + 1)..Len(ls) : IsFence(ls[k]) /\ FenceChar(ls[k]) = FenceChar(ls[o])}
    IN  IF at = {} THEN 0 ELSE Min(at)

\* The line that opens the block still open at the end of the file, reading
\* the blocks from line n on, or 0 when every block is closed.
RECURSIVE OpenBlock(_, _)
OpenBlock(ls, n) ==
    LET o == FirstFence(ls, n)
    IN  IF o = 0 THEN 0
        ELSE IF Closer(ls, o) = 0 THEN o
        ELSE OpenBlock(ls, Closer(ls, o) + 1)

\* Where line k lies, reading the blocks from line n on: "outside" every
\* block, on the "fence" line that opens or closes one, or "inside" one.
RECURSIVE Region(_, _, _)
Region(ls, n, k) ==
    LET o == FirstFence(ls, n)
        c == Closer(ls, o)
    IN  IF o = 0 \/ k < o THEN "outside"
        ELSE IF k = o THEN "fence"
        ELSE IF c = 0 \/ k < c THEN "inside"
        ELSE IF k = c THEN "fence"
        ELSE Region(ls, c + 1, k)

Outside(ls, k) == Region(ls, 1, k) = "outside"

\* How many elements of errs are e.
Count(errs, e) == Cardinality({k \in 1..Len(errs) : errs[k] = e})

\* The scans finished so far: the file, its lines and the diagnostics returned.
Scans ==
    {[f |-> returned[k][1], ls |-> tree[returned[k][1]].lines, errs |-> returned[k][2]] :
        k \in 1..Len(returned)}

(***************************************************************************)
(* Claims                                                                  *)
(***************************************************************************)

\* The line begins with 1 to 6 '#' and then a character that is no whitespace.
HashThenText(line) ==
    LET hashes == RunFrom(line, 1, {"#"})
    IN  hashes >= 1 /\ hashes <= 6 /\ hashes < Len(line) /\ line[hashes + 1] \notin Whitespace

\* The line begins with 1 to 6 '#' and then whitespace.
HashThenSpace(line) ==
    LET hashes == RunFrom(line, 1, {"#"})
    IN  hashes >= 1 /\ hashes <= 6 /\ hashes < Len(line) /\ line[hashes + 1] \in Whitespace

\* C1: in every finished scan, a line outside the fenced regions that begins
\* with 1 to 6 '#' and then a character that is no whitespace (#Title) has
\* exactly one header diagnostic "Missing space after '#' in header" at its
\* line, and a line whose '#' are followed by whitespace has none.
C1_MissingSpaceReported ==
    \A s \in Scans : \A n \in 1..Len(s.ls) :
        Outside(s.ls, n) =>
            /\ HashThenText(s.ls[n]) => Count(s.errs, Err(n, "header", MissingSpaceMsg)) = 1
            /\ HashThenSpace(s.ls[n]) => Count(s.errs, Err(n, "header", MissingSpaceMsg)) = 0

\* The file has no header, no link or image, no list item, no fence line and
\* no table (a row holding '|' and then a separator row).
Plain(ls) ==
    /\ \A n \in 1..Len(ls) :
            /\ ~HEADER_RE(ls[n]).matched
            /\ ~LIST_ITEM_RE(ls[n]).matched
            /\ ~IsFence(ls[n])
            /\ LINK_RE(ls[n]) = <<>>
            /\ IMAGE_RE(ls[n]) = <<>>
    /\ \A n \in 1..(Len(ls) - 1) : ~(Contains(ls[n], "|") /\ TABLE_SEP_RE(ls[n + 1]))

NoTab(ls) == \A n \in 1..Len(ls) : ~Contains(ls[n], "\t")

\* C2, as claimed: a file with no header, link, image, list item, fence line
\* or table has no diagnostic, whatever else its lines hold.
C2_PlainFileNoDiagnostic ==
    \A s \in Scans : Plain(s.ls) => s.errs = <<>>

\* C2, amended: a file with no header, link, image, list item, fence line or
\* table, and with no tab character in any line, has no diagnostic.
C2_PlainTabFreeFileNoDiagnostic ==
    \A s \in Scans : Plain(s.ls) /\ NoTab(s.ls) => s.errs = <<>>

\* A file of two lines or more, one of them with a '#' or a '|', was scanned
\* and is such a file.
C2_Witness ==
    \E s \in Scans :
        /\ Plain(s.ls)
        /\ NoTab(s.ls)
        /\ Len(s.ls) >= 2
        /\ \E n \in 1..Len(s.ls) : Contains(s.ls[n], "#") \/ Contains(s.ls[n], "|")
        /\ s.errs = <<>>

\* The places in errs of the diagnostics of the rule "syntax".
SyntaxAt(errs) == {k \in 1..Len(errs) : errs[k][2] = "syntax"}

\* C3: a finished scan returns the diagnostic "Fenced code block is not
\* closed" if and only if it ended in a fence, at most once, and at the line
\* that opens the block still open at the end of the file: the first fence
\* line no later fence line of the same character closes, counting the
\* blocks from the top. A fence line of the other character closes nothing.
C3_UnclosedFenceReported ==
    /\ \A s \in Scans :
        LET o == OpenBlock(s.ls, 1)
        IN  /\ Cardinality(SyntaxAt(s.errs)) = (IF o = 0 THEN 0 ELSE 1)
            /\ \A k \in SyntaxAt(s.errs) : s.errs[k] = Err(o, "syntax", UnclosedMsg)
    /\ (pc \in {"files", "exit"} /\ returned # <<>>) =>
            (in_fenced <=> SyntaxAt(returned[Len(returned)][2]) # {})

\* A scan returned the diagnostic for a block opened after the first line and
\* after a closed block, with a fence line of the other character inside it.
C3_Witness ==
    \E s \in Scans :
        LET o == OpenBlock(s.ls, 1)
        IN  /\ o >= 3
            /\ \E k \in (o + 1)..Len(s.ls) : IsFence(s.ls[k])
            /\ SyntaxAt(s.errs) # {}

\* C4: no diagnostic of a content rule is at a fence line or at a line
\* inside a fenced region: at a fence line there is nothing but the tab
\* diagnostic and the unclosed-fence diagnostic, at a line inside a fenced
\* region nothing but the tab diagnostic.
C4_NoContentDiagnosticInFence ==
    \A s \in Scans : \A k \in 1..Len(s.errs) :
        LET where == Region(s.ls, 1, s.errs[k][1])
        IN  /\ where = "fence" =>
                  s.errs[k][3] \in {TabMsg, UnclosedMsg}
            /\ where = "inside" => s.errs[k][3] = TabMsg

\* The level of the header at line n when it is one outside the fenced
\* regions, else 0.
HeaderLevel(ls, n) ==
    IF Outside(ls, n) /\ HEADER_RE(ls[n]).matched THEN Len(HEADER_RE(ls[n]).g1) ELSE 0

\* The level-1 headers outside the fenced regions, up to line n.
H1UpTo(ls, n) == {m \in 1..n : HeaderLevel(ls, m) = 1}

\* C5: in every finished scan the k-th level-1 header outside the fenced
\* regions has the diagnostic "Multiple H1 headings found" at its line, once,
\* if and only if k >= 2; no other line has it.
C5_MultipleH1Reported ==
    \A s \in Scans : \A n \in 1..Len(s.ls) :
        Count(s.errs, Err(n, "header", MultipleH1Msg)) =
            (IF HeaderLevel(s.ls, n) = 1 /\ Cardinality(H1UpTo(s.ls, n)) >= 2 THEN 1 ELSE 0)

\* A scan of a file with a level-1 header inside a fence and two outside, the
\* second of them reported.
C5_Witness ==
    \E s \in Scans : \E n \in 1..Len(s.ls) :
        /\ Cardinality(H1UpTo(s.ls, n)) = 2
        /\ HeaderLevel(s.ls, n) = 1
        /\ \E m \in 1..Len(s.ls) : ~Outside(s.ls, m) /\ HEADER_RE(s.ls[m]).matched
        /\ Count(s.errs, Err(n, "header", MultipleH1Msg)) = 1

\* The level of the nearest header outside the fenced regions before line n,
\* or 0 when there is none.
PrevLevel(ls, n) ==
    LET before == {m \in 1..(n - 1) : HeaderLevel(ls, m) # 0}
    IN  IF before = {} THEN 0
        ELSE HeaderLevel(ls, CHOOSE m \in before : \A y \in before : y <= m)

\* The diagnostics of errs at line n that report a jump of the level.
JumpsAt(errs, n) ==
    {k \in 1..Len(errs) :
        /\ errs[k][1] = n
        /\ errs[k][3].text = "Header level jumps from H{} to H{}"}

\* C6: in every finished scan a header of level L outside the fenced regions,
\* with P the level of the nearest earlier such header, has the diagnostic
\* "Header level jumps from H{P} to H{L}" at its line, once, if and only if
\* there is an earlier header and L > P + 1; no other line has such a
\* diagnostic. And while a file is scanned the remembered level is that of
\* the nearest header outside the fenced regions among the lines read,
\* whatever was reported for it.
C6_LevelJumpReported ==
    /\ \A s \in Scans : \A n \in 1..Len(s.ls) :
        LET L == HeaderLevel(s.ls, n)
            P == PrevLevel(s.ls, n)
        IN  IF L # 0 /\ P # 0 /\ L > P + 1
            THEN /\ Cardinality(JumpsAt(s.errs, n)) = 1
                 /\ \A k \in JumpsAt(s.errs, n) : s.errs[k] = Err(n, "header", JumpMsg(P, L))
            ELSE JumpsAt(s.errs, n) = {}
    /\ pc = "scan" => last_header_level = PrevLevel(lines, i + 1)

\* A scan where a header reported for its jump is followed by a header of
\* level 3 that is held against a level of 3 and is not reported.
C6_Witness ==
    \E s \in Scans : \E n \in 1..Len(s.ls) :
        /\ HeaderLevel(s.ls, n) = 3
        /\ PrevLevel(s.ls, n) = 3
        /\ JumpsAt(s.errs, n) = {}
        /\ \E m \in 1..(n - 1) : JumpsAt(s.errs, m) # {}

\* The separator-shaped lines of a file.
SeparatorLines(ls) == {k \in 1..Len(ls) : TABLE_SEP_RE(ls[k])}

\* Line h is the header row of a table found outside the fenced regions, in a
\* file whose only separator-shaped line is that table's.
TableAt(ls, h) ==
    /\ h < Len(ls)
    /\ Outside(ls, h)
    /\ Contains(ls[h], "|")
    /\ SeparatorLines(ls) = {h + 1}

\* The columns of a row: one more than the '|' that are neither the first nor
\* the last character of the row without its surrounding whitespace.
Columns(line) ==
    LET s == Strip(line)
    IN  Cardinality({k \in 2..(Len(s) - 1) : s[k] = "|"}) + 1

\* The first line after the separator row that is blank or has no '|', or the
\* line after the last.
RowsEnd(ls, h) ==
    Min({k \in (h + 2)..Len(ls) : Strip(ls[k]) = <<>> \/ ~Contains(ls[k], "|")}
        \cup {Len(ls) + 1})

\* The table diagnostics at line k.
TableErrors(errs, k) == {e \in 1..Len(errs) : errs[e][1] = k /\ errs[e][2] = "table"}

\* C7: in every finished scan of a file whose only separator-shaped line is
\* the one after a header row h that holds a '|' and lies outside the fenced
\* regions, with m the columns of the header row: a line after the separator
\* and before the first blank or '|'-free line has exactly one table
\* diagnostic, "Table row has n columns; expected m" at its own line, when its
\* columns n differ from m, and none when n = m; and no line at or after that
\* first blank or '|'-free line has a table diagnostic.
C7_TableRowsReported ==
    \A s \in Scans : \A h \in 1..Len(s.ls) :
        TableAt(s.ls, h) =>
            \A k \in (h + 2)..Len(s.ls) :
                LET m == Columns(s.ls[h])
                    n == Columns(s.ls[k])
                IN  IF k < RowsEnd(s.ls, h) /\ n # m
                    THEN /\ Cardinality(TableErrors(s.errs, k)) = 1
                         /\ Count(s.errs, Err(k, "table", TableRowMsg(n, m))) = 1
                    ELSE TableErrors(s.errs, k) = {}

\* A scan of a table of three columns with a row of two columns that is
\* reported, and, after a line that ends the rows, a line with a '|' and two
\* columns that is not.
C7_Witness ==
    \E s \in Scans : \E h \in 1..Len(s.ls) :
        /\ TableAt(s.ls, h)
        /\ Columns(s.ls[h]) = 3
        /\ \E k \in (h + 2)..(RowsEnd(s.ls, h) - 1) :
                /\ Columns(s.ls[k]) = 2
                /\ Count(s.errs, Err(k, "table", TableRowMsg(2, 3))) = 1
        /\ \E k \in (RowsEnd(s.ls, h) + 1)..Len(s.ls) :
                /\ Contains(s.ls[k], "|")
                /\ Columns(s.ls[k]) = 2
                /\ TableErrors(s.errs, k) = {}

\* The ']' that closes the bracket opened before position k, d brackets being
\* open at k, or 0: brackets inside the text of a link pair up.
RECURSIVE ClosingBracket(_, _, _)
ClosingBracket(line, k, d) ==
    IF k > Len(line) THEN 0
    ELSE IF line[k] = "[" THEN ClosingBracket(line, k + 1, d + 1)
    ELSE IF line[k] = "]" THEN (IF d = 1 THEN k ELSE ClosingBracket(line, k + 1, d - 1))
    ELSE ClosingBracket(line, k + 1, d)

\* [text](target) with its '[' at position p: the target, or None.
Occurrence(line, p) ==
    LET close == ClosingBracket(line, p + 1, 1)
        rp    == IF close = 0 THEN 0 ELSE IndexFrom(line, close + 2, ")")
    IN  IF /\ p <= Len(line)
           /\ line[p] = "["
           /\ close # 0
           /\ close < Len(line)
           /\ line[close + 1] = "("
           /\ rp > close + 2
        THEN Some(SubSeq(line, close + 2, rp - 1))
        ELSE None

\* Where the links [text](target) of a line begin: at a '[' with no '!'
\* before it.
LinkOccurrences(line) ==
    {p \in 1..Len(line) : (p = 1 \/ line[p - 1] # "!") /\ ~Occurrence(line, p).none}

\* Where the images ![text](target) of a line begin: at the '[' after a '!'.
ImageOccurrences(line) ==
    {p \in 2..Len(line) : line[p - 1] = "!" /\ ~Occurrence(line, p).none}

\* The targets that the occurrences and the link and image diagnostics of
\* line n speak of.
TargetsAt(s, n) ==
    {Occurrence(s.ls[n], p).value : p \in LinkOccurrences(s.ls[n]) \cup ImageOccurrences(s.ls[n])}
    \cup {s.errs[e][3].target : e \in {k \in 1..Len(s.errs) :
                                        s.errs[k][1] = n /\ s.errs[k][2] \in {"link", "image"}}}

\* How many of the occurrences at the places P of line n have the target t.
WithTarget(s, n, P, t) == Cardinality({p \in P : Occurrence(s.ls[n], p).value = t})

\* C8: in every finished scan, at a line outside the fenced regions, a link
\* [text](target) has exactly one link diagnostic "Broken link target:
\* {target}" when its target resolves to a local path that does not exist,
\* and none when the path exists or the target is a web address; an image
\* ![text](target) has its image diagnostic in the same way and no link
\* diagnostic; there is no other link or image diagnostic, and none at a line
\* that is not outside the fenced regions.
C8_LinksAndImagesReported ==
    \A s \in Scans : \A n \in 1..Len(s.ls) : \A t \in TargetsAt(s, n) :
        LET links  == IF Outside(s.ls, n) /\ Broken(tree, s.f, t)
                      THEN WithTarget(s, n, LinkOccurrences(s.ls[n]), t) ELSE 0
            images == IF Outside(s.ls, n) /\ Broken(tree, s.f, t)
                      THEN WithTarget(s, n, ImageOccurrences(s.ls[n]), t) ELSE 0
        IN  /\ Count(s.errs, Err(n, "link", BrokenLinkMsg(t))) = links
            /\ Count(s.errs, Err(n, "image", MissingImageMsg(t))) = images
            /\ \A e \in 1..Len(s.errs) :
                    s.errs[e][1] = n /\ s.errs[e][3].target = t =>
                        /\ s.errs[e][2] = "link" => s.errs[e][3] = BrokenLinkMsg(t)
                        /\ s.errs[e][2] = "image" => s.errs[e][3] = MissingImageMsg(t)

\* The markdown files below the root: the files whose name ends in ".md", in
\* letters of either case, and that have no directory ".git" above them.
MarkdownFiles ==
    {f \in DOMAIN tree :
        /\ Len(f) >= 3
        /\ Lower(SubSeq(f, Len(f) - 2, Len(f))) = <<".", "m", "d">>
        /\ \A k \in 1..(Len(f) - 5) : SubSeq(f, k, k + 5) # <<"/", ".", "g", "i", "t", "/">>}

\* The markdown files that cannot be read as text.
Unreadable == {f \in MarkdownFiles : ~tree[f].decodes}

\* How many diagnostics the first k scans returned.
RECURSIVE Produced(_)
Produced(k) == IF k = 0 THEN 0 ELSE Produced(k - 1) + Len(returned[k][2])

\* The run ended with "No .md files found", the status 0 and no file scanned.
EndedWithNoFiles ==
    /\ MarkdownFiles = {}
    /\ returned = <<>>
    /\ stdout = <<TextLine("No .md files found", 0)>>
    /\ exit_status = 0

\* The run ended with "Markdown lint passed" for the number of markdown
\* files, each of them scanned once, and the status 0.
EndedWithPassed ==
    /\ MarkdownFiles # {}
    /\ Produced(Len(returned)) = 0
    /\ Len(returned) = Cardinality(MarkdownFiles)
    /\ {returned[k][1] : k \in 1..Len(returned)} = MarkdownFiles
    /\ stdout = <<TextLine("Markdown lint passed: {} file(s) checked", Cardinality(MarkdownFiles))>>
    /\ exit_status = 0

\* The run ended with "Markdown lint failed" for the number of diagnostics,
\* as the last line and after nothing but diagnostic lines, each markdown
\* file scanned once, and the status 1.
EndedWithFailed ==
    /\ Produced(Len(returned)) >= 1
    /\ Len(returned) = Cardinality(MarkdownFiles)
    /\ {returned[k][1] : k \in 1..Len(returned)} = MarkdownFiles
    /\ Len(stdout) = Produced(Len(returned)) + 1
    /\ stdout[Len(stdout)] =
            TextLine("Markdown lint failed: {} issue(s) found", Produced(Len(returned)))
    /\ \A k \in 1..(Len(stdout) - 1) : stdout[k].kind = "diagnostic"
    /\ exit_status = 1

\* C9, as claimed: every run of main ends in one of the three outcomes, and
\* its exit status is 1 exactly when a diagnostic was produced.
C9_ThreeOutcomes ==
    pc = "exit" =>
        /\ EndedWithNoFiles \/ EndedWithPassed \/ EndedWithFailed
        /\ exit_status = 1 <=> Produced(Len(returned)) >= 1
        /\ exit_status \in {0, 1}

\* C9, amended: a run of main over markdown files that can all be read as
\* text ends in one of the three outcomes (no markdown file: "No .md files
\* found", status 0, nothing scanned; files and no diagnostic: "Markdown lint
\* passed" with the number of files, status 0; diagnostics: "Markdown lint
\* failed" with their number, status 1), which exclude each other, and its
\* exit status is 1 exactly when a diagnostic was produced. A run that meets
\* a markdown file that cannot be read ends with the exception, nothing
\* printed, and the status 1. No run ends with another status than 0 or 1.
C9_ThreeOutcomesOrReadError ==
    /\ pc # "exit" => exit_status = -1 /\ stdout = <<>> /\ ~raised
    /\ pc = "exit" =>
        /\ exit_status \in {0, 1}
        /\ raised <=> Unreadable # {}
        /\ raised => exit_status = 1 /\ stdout = <<>>
        /\ ~raised =>
            /\ EndedWithNoFiles \/ EndedWithPassed \/ EndedWithFailed
            /\ exit_status = 1 <=> Produced(Len(returned)) >= 1

\* A run over two markdown files or more, one with diagnostics and one with
\* none, beside files that main must not scan, ended with the status 1.
C9_Witness ==
    /\ pc = "exit"
    /\ ~raised
    /\ EndedWithFailed
    /\ Len(returned) >= 2
    /\ \E k \in 1..Len(returned) : returned[k][2] = <<>>
    /\ DOMAIN tree # MarkdownFiles

\* The diagnostic lines printed.
DiagnosticLines == SelectSeq(stdout, LAMBDA l : l.kind = "diagnostic")

\* The diagnostics the scans returned, as the lines that report them.
RECURSIVE ReturnedLines(_)
ReturnedLines(k) ==
    IF k = 0 THEN <<>>
    ELSE ReturnedLines(k - 1) \o
         [e \in 1..Len(returned[k][2]) |->
            DiagLine(relpath(returned[k][1], Root), returned[k][2][e][1],
                     returned[k][2][e][2], returned[k][2][e][3])]

\* Line a comes before line b in the order of (file path, line number,
\* category, message).
LineBefore(a, b) ==
    \/ StrLess(a.rel, b.rel)
    \/ a.rel = b.rel /\ a.line_no < b.line_no
    \/ a.rel = b.rel /\ a.line_no = b.line_no /\ RuleRank(a.rule) < RuleRank(b.rule)
    \/ a.rel = b.rel /\ a.line_no = b.line_no /\ a.rule = b.rule /\ MsgLess(a.msg, b.msg)

\* The diagnostic lines printed are in ascending order, they are the
\* diagnostics returned, each as often as it was returned, and the summary
\* that follows them counts them.
PrintedAsReturned ==
    LET printed == DiagnosticLines
        all     == ReturnedLines(Len(returned))
    IN  /\ \A k \in 1..(Len(printed) - 1) : ~LineBefore(printed[k + 1], printed[k])
        /\ Len(printed) = Len(all)
        /\ \A l \in {printed[k] : k \in 1..Len(printed)} \cup {all[k] : k \in 1..Len(all)} :
                Count(printed, l) = Count(all, l)
        /\ printed # <<>> =>
                stdout = printed \o
                    <<TextLine("Markdown lint failed: {} issue(s) found", Len(printed))>>

\* C10, as claimed: at the end of every run the diagnostic lines printed are
\* in ascending order of (file path, line number, category, message) and are
\* exactly the diagnostics the scans returned, none dropped.
C10_PrintedSortedAndComplete ==
    pc = "exit" => PrintedAsReturned

\* C10, amended: at the end of a run that read every markdown file, the
\* diagnostic lines printed are in ascending order of (file path, line
\* number, category, message), they are exactly the diagnostics the scans
\* returned, each printed as often as it was returned, and the count in the
\* failure summary is the number of diagnostic lines; a run that a file that
\* cannot be read ends prints none of the diagnostics returned before it.
C10_PrintedSortedAndCompleteIfRead ==
    /\ pc = "exit" /\ ~raised => PrintedAsReturned
    /\ pc = "exit" /\ raised => DiagnosticLines = <<>>

\* A run printed the diagnostics of two files, three or more of them and two
\* of them at the same line of the same file, in another order than the one
\* the scans returned them in.
C10_Witness ==
    /\ pc = "exit"
    /\ ~raised
    /\ Len(DiagnosticLines) >= 3
    /\ \E a, b \in 1..Len(DiagnosticLines) :
            DiagnosticLines[a].rel # DiagnosticLines[b].rel
    /\ \E a \in 1..(Len(DiagnosticLines) - 1) :
            /\ DiagnosticLines[a].rel = DiagnosticLines[a + 1].rel
            /\ DiagnosticLines[a].line_no = DiagnosticLines[a + 1].line_no
    /\ DiagnosticLines # ReturnedLines(Len(returned))

\* C11: a second run over the same tree prints what the first run printed,
\* line for line, and ends with the same status, in whatever order the files
\* were enumerated in each of the two runs.
C11_ReportDependsOnTreeOnly ==
    pc = "exit" /\ previous # <<>> =>
        /\ stdout = previous[1].stdout
        /\ exit_status = previous[1].exit_status

\* Two runs that enumerated the same files in two orders, both with
\* diagnostics of two files or more to print, have ended.
C11_Witness ==
    /\ pc = "exit"
    /\ previous # <<>>
    /\ ~raised
    /\ md_files # previous[1].md_files
    /\ {md_files[k] : k \in 1..Len(md_files)} =
            {previous[1].md_files[k] : k \in 1..Len(previous[1].md_files)}
    /\ \E a, b \in 1..Len(DiagnosticLines) : DiagnosticLines[a].rel # DiagnosticLines[b].rel

\* The line is fence-shaped: after whitespace only, three of the same fence
\* character in a row. What follows them is free.
FenceShaped(line) ==
    \E k \in 1..(Len(line) - 2) :
        /\ \A m \in 1..(k - 1) : line[m] \in Whitespace
        /\ line[k] \in {Backtick, "~"}
        /\ line[k + 1] = line[k]
        /\ line[k + 2] = line[k]

\* The fence character of a fence-shaped line: its first character that is
\* no whitespace.
ShapeChar(line) == line[Min({k \in 1..Len(line) : line[k] \notin Whitespace})]

\* The fence state is left as it is.
FenceStateKept == UNCHANGED <<in_fenced, fence_token, fence_line>>

\* C12: in every step of a scan the fence state (in_fenced, the recorded
\* character, the recorded line) changes only when a fence-shaped line is
\* processed: outside a fence every fence-shaped line opens one and its
\* character and line number are recorded; inside a fence a fence-shaped line
\* of the recorded character closes it, whatever the length of its run and
\* whatever follows the run, and one of the other character changes nothing.
C12_FenceTransitions ==
    [][ (pc \in {"scan", "rows"} =>
          IF i' = i + 1
          THEN LET line == lines[i + 1]
               IN  /\ ~FenceShaped(line) => FenceStateKept
                   /\ FenceShaped(line) /\ ~in_fenced =>
                        /\ in_fenced'
                        /\ fence_token' # <<>>
                        /\ fence_token'[1] = ShapeChar(line)
                        /\ fence_line' = i + 1
                   /\ FenceShaped(line) /\ in_fenced /\ ShapeChar(line) = fence_token[1] =>
                        ~in_fenced'
                   /\ FenceShaped(line) /\ in_fenced /\ ShapeChar(line) # fence_token[1] =>
                        FenceStateKept
          ELSE FenceStateKept) ]_vars

\* A block that four backticks opened was closed by three, after a fence
\* line of tildes inside it that changed nothing.
C12_Witness ==
    /\ pc = "scan"
    /\ i = 3
    /\ lines[1] = <<Backtick, Backtick, Backtick, Backtick>>
    /\ lines[2] = TildeFence
    /\ lines[3] = BackFence
    /\ ~in_fenced

\* C13: in every state of a scan, before and after each line, the recorded
\* fence character and the recorded opening line are set (a token that is
\* not empty, a line number of 1 or more) if and only if in_fenced is true;
\* so a scan that ends in a fence has an opening line to report, and the
\* fallback to line 1 is not taken.
C13_FenceRecordSetIffFenced ==
    pc \in {"scan", "rows"} =>
        /\ in_fenced <=> fence_token # <<>>
        /\ in_fenced <=> fence_line >= 1
        /\ fence_line \in 0..Len(lines)
        /\ in_fenced /\ i >= Len(lines) => fence_line # 0

\* A scan is at the end of a file, in a fence opened at line 3 or later,
\* after an earlier fence was closed.
C13_Witness ==
    /\ pc = "scan"
    /\ i = Len(lines)
    /\ in_fenced
    /\ fence_line >= 3
    /\ FenceShaped(lines[1])
    /\ fence_token # <<>>

\* C14: in every finished scan every line that holds a tab has exactly one
\* diagnostic "Tab character found; use spaces" of the rule indent at its own
\* line number, whether it is outside a fence, inside one, or a fence line
\* that opens or closes one; a line that holds no tab has none.
C14_TabReportedOncePerLine ==
    \A s \in Scans : \A n \in 1..Len(s.ls) :
        /\ Count(s.errs, Err(n, "indent", TabMsg)) =
                (IF \E k \in 1..Len(s.ls[n]) : s.ls[n][k] = "\t" THEN 1 ELSE 0)
        /\ \A e \in 1..Len(s.errs) : s.errs[e][3] = TabMsg => s.errs[e][2] = "indent"

\* A scan reported a tab on a fence line that opens a block, on a line inside
\* the block and on the fence line that closes it, and no tab on a line
\* after it.
C14_Witness ==
    \E s \in Scans :
        /\ Len(s.ls) = 4
        /\ Region(s.ls, 1, 1) = "fence"
        /\ Region(s.ls, 1, 2) = "inside"
        /\ Region(s.ls, 1, 3) = "fence"
        /\ Region(s.ls, 1, 4) = "outside"
        /\ \A n \in 1..3 : Count(s.errs, Err(n, "indent", TabMsg)) = 1
        /\ Count(s.errs, Err(4, "indent", TabMsg)) = 0

\* The line before line n exists, is empty or whitespace only, and does not
\* begin with a space.
BlankLineBefore(ls, n) ==
    /\ n > 1
    /\ \A k \in 1..Len(ls[n - 1]) : ls[n - 1][k] \in Whitespace
    /\ (ls[n - 1] = <<>> \/ ls[n - 1][1] # " ")

\* C15: in every finished scan a list item outside the fenced regions that
\* is indented by one space or more has the diagnostic "Indented list item
\* preceded by blank line; may break nesting" at its line, once, if and only
\* if there is a line before it, that line is empty or whitespace only, and
\* that line does not begin with a space; an indented list item on the first
\* line of the file does not have it.
C15_BlankBeforeListReported ==
    \A s \in Scans : \A n \in 1..Len(s.ls) :
        LET list_m == LIST_ITEM_RE(s.ls[n])
        IN  Outside(s.ls, n) /\ list_m.matched /\ Len(list_m.indent) > 0 =>
                Count(s.errs, Err(n, "indent", ListBlankMsg)) =
                    (IF BlankLineBefore(s.ls, n) THEN 1 ELSE 0)

\* C16: every scan starts outside a fence, with no fence recorded, no
\* level-1 header counted, no header level remembered and no diagnostic; and
\* the diagnostics returned for a file are the same in two runs over the
\* same tree, whichever files were scanned before it in each of them.
C16_NoStateAcrossFiles ==
    /\ pc = "scan" /\ i = 0 =>
        /\ ~in_fenced
        /\ fence_token = <<>>
        /\ fence_line = 0
        /\ h1_count = 0
        /\ last_header_level = 0
        /\ errors = <<>>
    /\ \A k, m \in 1..Len(returned) : returned[k][1] = returned[m][1] => k = m
    /\ previous # <<>> =>
        \A k \in 1..Len(returned) : \A m \in 1..Len(previous[1].returned) :
            returned[k][1] = previous[1].returned[m][1] =>
                returned[k][2] = previous[1].returned[m][2]

\* A file with diagnostics was scanned first in one run and, in the next
\* run, after a file that ended in an open fence or with headers seen.
C16_Witness ==
    /\ previous # <<>>
    /\ \E k \in 2..Len(returned) :
        /\ returned[k][1] = previous[1].returned[1][1]
        /\ returned[k][2] # <<>>
        /\ \E e \in 1..Len(returned[k - 1][2]) :
                returned[k - 1][2][e][2] \in {"syntax", "header"}

\* C17: every diagnostic of a scan, while it runs and when it has returned,
\* has a line number from 1 to the number of lines of the file, the
\* diagnostics of the table rows looked ahead at and of the open fence at
\* the end of the file among them; a file of no lines has no diagnostic.
C17_LineNumbersWithinFile ==
    /\ \A s \in Scans :
        /\ \A e \in 1..Len(s.errs) : s.errs[e][1] \in 1..Len(s.ls)
        /\ s.ls = <<>> => s.errs = <<>>
    /\ pc \in {"scan", "rows"} =>
        \A e \in 1..Len(errors) : errors[e][1] \in 1..Len(lines)

\* A scan returned, for the last line of a file, a diagnostic of a table row
\* and the diagnostic of the fence that this line opens.
C17_Witness ==
    \E s \in Scans :
        /\ Len(s.ls) = 3
        /\ \E e \in 1..Len(s.errs) : s.errs[e][1] = 3 /\ s.errs[e][2] = "table"
        /\ Count(s.errs, Err(3, "syntax", UnclosedMsg)) = 1

\* The target without the whitespace around it and without one pair of
\* quotes around that: two characters, the first and the last, that are the
\* same quote. What the quotes held is trimmed as well.
Unquoted(target) ==
    LET t == Strip(target)
    IN  IF Len(t) >= 2 /\ t[1] = t[Len(t)] /\ t[1] \in {"\"", "'"}
        THEN Strip(SubSeq(t, 2, Len(t) - 1))
        ELSE t

\* The longest prefix of d that holds neither '#' nor '?'.
UncutPrefix(d) ==
    SubSeq(d, 1, Min({k - 1 : k \in {m \in 1..Len(d) : d[m] \in {"#", "?"}}} \cup {Len(d)}))

\* The target is one that the claim says resolves to nothing.
Unresolvable(target) ==
    LET u == Unquoted(target)
    IN  \/ u = <<>>
        \/ StartsWith(Lower(u), <<"h", "t", "t", "p", ":", "/", "/">>)
        \/ StartsWith(Lower(u), <<"h", "t", "t", "p", "s", ":", "/", "/">>)
        \/ StartsWith(u, <<"m", "a", "i", "l", "t", "o", ":">>)
        \/ UncutPrefix(unquote(u)) = <<>>

\* The targets of the links of the lines scanned.
LinkTargets(s) ==
    UNION {{LINK_RE(s.ls[n])[k] : k \in 1..Len(LINK_RE(s.ls[n]))} : n \in 1..Len(s.ls)}

\* C18: for every target of a link of a scanned file, resolve_local_path
\* returns None if and only if the target, trimmed and without one pair of
\* quotes around it, is empty, or begins with http:// or https:// in any
\* letter case, or begins with mailto:, or is empty once percent-decoded and
\* cut at the first '#' and the first '?'; in every other case it returns the
\* normalized path of the longest prefix of the decoded target that holds
\* neither '#' nor '?', taken from the directory of the file when relative.
C18_ResolvesUnlessExcluded ==
    \A s \in Scans : \A t \in LinkTargets(s) :
        LET local  == resolve_local_path(s.f, t)
            prefix == UncutPrefix(unquote(Unquoted(t)))
        IN  /\ local.none <=> Unresolvable(t)
            /\ ~Unresolvable(t) =>
                local = Some(normpath(IF prefix[1] = "/" THEN prefix
                                      ELSE dirname(s.f) \o <<"/">> \o prefix))

\* The header state is left as it is.
HeaderStateKept == UNCHANGED <<h1_count, last_header_level>>

\* A step of a scan keeps the header state unless the line it processes
\* lies outside a fence, is no fence line and has the shape of a header; the
\* steps of the table lookahead keep it; no step lowers h1_count.
HeaderStateStep ==
    /\ pc = "scan" =>
        /\ h1_count' >= h1_count
        /\ IF i < Len(lines) /\ (i' = i + 1 \/ pc' = "rows")
           THEN (FenceShaped(lines[i + 1]) \/ in_fenced \/ ~HashThenSpace(lines[i + 1]))
                    => HeaderStateKept
           ELSE HeaderStateKept
    /\ pc = "rows" => HeaderStateKept

\* C19: in every state of a scan last_header_level is one of 0..6 and
\* h1_count is a natural number, and h1_count never decreases during the
\* scan; both are left unchanged by every fence line, by every line
\* processed inside a fence (lines of the shape of a header among them), and
\* by every line outside the fences that has not the shape of a header.
C19_HeaderStateFrame ==
    /\ [](pc \in {"scan", "rows"} =>
            last_header_level \in 0..6 /\ h1_count \in 0..Len(lines))
    /\ [][HeaderStateStep]_vars

\* A header of level 1 inside a fence was just processed, after a header of
\* level 1 and one of level 6 outside it, and the state is as before it.
C19_Witness ==
    /\ pc = "scan"
    /\ i = 4
    /\ in_fenced
    /\ fence_line = 3
    /\ HashThenSpace(lines[4])
    /\ h1_count = 1
    /\ last_header_level = 6

\* Line k is blank or holds no '|'.
EndsRows(ls, k) == Strip(ls[k]) = <<>> \/ \A m \in 1..Len(ls[k]) : ls[k][m] # "|"

\* A step of the main loop moves its index by one line, or starts the
\* lookahead at the line after the separator row and stays; the scan returns
\* only when the index is at the end of the file. A step of the lookahead
\* moves its own index by one over a row, or ends at the end of the file or
\* at a line that is blank or holds no '|', where the main loop moves on by
\* one; no step of the lookahead changes the main index otherwise, or the
\* fence state, or the header state.
ScanStep ==
    /\ pc = "scan" =>
        \/ pc' = "scan" /\ i < Len(lines) /\ i' = i + 1
        \/ pc' = "rows" /\ i < Len(lines) /\ i' = i /\ j' = i + 2
        \/ pc' = "files" /\ i = Len(lines) /\ i' = i
    /\ pc = "rows" =>
        /\ \/ /\ pc' = "rows"
              /\ j < Len(lines)
              /\ ~EndsRows(lines, j + 1)
              /\ j' = j + 1
              /\ i' = i
           \/ /\ pc' = "scan"
              /\ j = Len(lines) \/ EndsRows(lines, j + 1)
              /\ j' = j
              /\ i' = i + 1
        /\ UNCHANGED <<in_fenced, fence_token, fence_line, h1_count, last_header_level>>

\* C20: every scan terminates: from every state of the scan the program
\* comes to the return of lint_file, and from every state of the table
\* lookahead back to the main loop; the main loop goes through the lines one
\* by one in increasing order, on the fence path as on the normal path; the
\* lookahead goes forward row by row to the end of the file or to the first
\* line that is blank or holds no '|', and changes neither the main index
\* nor the fence state nor the header state.
C20_ScanTerminates ==
    /\ [](pc \in {"scan", "rows"} => i \in 0..Len(lines) /\ j \in 0..Len(lines))
    /\ [][ScanStep]_vars
    /\ (pc = "rows" ~> pc = "scan")
    /\ (pc = "scan" ~> pc = "files")

\* The lookahead went over a row, ended at a line with no '|' before the end
\* of the file, and the main loop is at the line after the header row.
C20_Witness ==
    /\ pc = "scan"
    /\ i >= 1
    /\ j = i + 2
    /\ j < Len(lines)
    /\ TABLE_SEP_RE(lines[i + 1])
    /\ ~EndsRows(lines, j)
    /\ Strip(lines[j + 1]) # <<>>
    /\ EndsRows(lines, j + 1)

=============================================================================
